---------------------------- MODULE Spec2Model ----------------------------
(***************************************************************************)
(* A model of luminvaria.py: the hue-wheel search of wheel(), the neutral  *)
(* ramp, the hex <-> RGB conversions and the spectral sampling of          *)
(* interesting_wavelengths() with the swatch display.                      *)
(*                                                                         *)
(* The colour library (CIECAM16 <-> XYZ <-> sRGB) is not part of the       *)
(* repository.  Its results are left open: the gamut classifier is any     *)
(* member of a family of classifiers fixed in the initial state, and the   *)
(* hex colour of a CIECAM16 specification is an opaque term naming that    *)
(* specification.                                                          *)
(***************************************************************************)
EXTENDS Integers, Sequences, FiniteSets, TLC

VARIABLES
    gamut,          \* the classifier's behaviour: a set of regions (see Classify)
    slices,         \* wheel(): slices (6 in the code; drawn from 1..MaxSlices here)
    it,             \* wheel(): position of the iterator of range(100, 0, -1)
    c,              \* wheel(): the loop variable c (0 before the first iteration)
    i,              \* wheel(): the loop variable i
    hues,           \* wheel(): hues
    out_of_gamut,   \* wheel(): out_of_gamut
    solution,       \* the C printed by "Solution found for C =", 0 when none was
    neutrals,       \* wheel(): neutrals
    shown,          \* the matrix handed to display_colors
    calls,          \* number of calls of ciecam16_is_within_srgb made by this run
    run,            \* 1: the run with the drawn slice count, 2: the run with one slice
    prev,           \* what run 1 ended with
    hx,             \* hex_to_rgb(hx): the string given
    rgb,            \* the RGB triple hex_to_rgb returned, or rgb_to_hex is given
    hexOut,         \* the string rgb_to_hex returned
    frames,         \* display_colors: the frames created, in order
    invalid,        \* display_colors: the colours printed as "Invalid color"
    pc              \* the position in the program

wheelVars == <<gamut, slices, it, c, out_of_gamut, solution, neutrals, calls,
               run, prev>>
hexVars == <<hx, rgb, hexOut>>
displayVars == <<frames, invalid>>

vars == <<gamut, slices, it, c, i, hues, out_of_gamut, solution, neutrals,
          shown, calls, run, prev, hx, rgb, hexOut, frames, invalid, pc>>

----------------------------------------------------------------------------
(* Bounds of the model *)

\* the largest slice count a run is started with
MaxSlices == 6

\* fixed-point resolution of the lightness levels: a level x is held as x * Scale
Scale == 1000

\* yin_level is examined for the levels 0 .. MaxLevel
MaxLevel == 6

----------------------------------------------------------------------------
(* wheel(): the chroma search *)

\* range(100, 0, -1) as the sequence of the values it yields
\* two faulty variants: range(1, 101) and range(100, 1, -1)
ChromaRangeAscending == [k \in 1..100 |-> k]
ChromaRangeStopsEarly == [k \in 1..99 |-> 101 - k]

ChromaRange == [k \in 1..100 |-> 101 - k]

\* the lightness of every hue of the wheel, J=50
WheelJ == 50 * Scale

\* h = (360 / slices) * i, held as the fraction num/den (the float's rounding
\* is left out; i = 0 gives 0.0 exactly for every slice count)
HueAngle(sl, idx) == [num |-> 360 * idx, den |-> sl]

\* the CAM_Specification_CIECAM16 built for chroma C and hue index idx
Selected(sl, C, idx) == [J |-> WheelJ, C |-> C, h |-> HueAngle(sl, idx)]

\* ciecam16_to_hex of a specification: the library's answer, an opaque term
CiecamToHex(spec) == [hex_of |-> spec]

\* the sixth of the hue circle an angle lies in
Sector(h) == (h.num \div h.den) \div 60

\* A classifier is described by regions of (chroma, hue sector): in a region of
\* kind "out" the colour is out of gamut, in one of kind "raise" the conversion
\* chain raises; everywhere else the colour is within sRGB.
Region(s, lo, hi, kind) == [sector |-> s, lo |-> lo, hi |-> hi, kind |-> kind]

PrimaryRegions ==
    { Region(s, r[1], r[2], "out") :
        s \in 0..5,
        r \in {<<100, 100>>, <<98, 100>>, <<2, 100>>, <<1, 100>>, <<1, 1>>} }

SecondaryRegions ==
    { Region(0, 99, 99, "out"), Region(1, 99, 99, "raise"), Region(0, 97, 97, "raise") }

Gamuts ==
    { p \cup s : p \in {{}} \cup {{r} : r \in PrimaryRegions},
                 s \in {{}} \cup {{r} : r \in SecondaryRegions} }

Hits(g, spec, kind) ==
    \E r \in g : /\ r.kind = kind
                 /\ r.sector = Sector(spec.h)
                 /\ r.lo <= spec.C /\ spec.C <= r.hi

\* ciecam16_is_within_srgb(spec): "True", "False", or "raise" when the chain raises
Classify(g, spec) ==
    IF Hits(g, spec, "raise") THEN "raise"
    ELSE IF Hits(g, spec, "out") THEN "False"
    ELSE "True"

----------------------------------------------------------------------------
(* The neutral ramp *)

\* PHI, held as PHI * Scale
PHI == (1618 * Scale) \div 1000

\* pow(PHI, n), held as PHI^n * Scale
RECURSIVE PowPHI(_)
PowPHI(n) == IF n = 0 THEN Scale ELSE (PowPHI(n - 1) * PHI) \div Scale

\* a faulty variant: pow(PHI, level)
yin_level_from_zero(level) == ((Scale * Scale) \div PowPHI(level)) \div 2

\* yin_level(level) = (1 / pow(PHI, level + 1)) / 2, held as the level * Scale
yin_level(level) == ((Scale * Scale) \div PowPHI(level + 1)) \div 2

\* 1 - yin_level(level)
yang_level(level) == Scale - yin_level(level)

\* a neutral swatch: ciecam16_to_hex of J = level * 100, C = 0, h = 0
Neutral(level) == CiecamToHex([J |-> level * 100, C |-> 0, h |-> HueAngle(1, 0)])

NeutralRamp ==
    << Neutral(yin_level(2)), Neutral(yin_level(1)), Neutral(yin_level(0)),
       Neutral(yang_level(0)), Neutral(yang_level(1)), Neutral(yang_level(2)) >>

----------------------------------------------------------------------------
(* wheel(), step by step *)

\* the state at the entry of wheel() with the given slice count
Enter(sl) ==
    /\ slices' = sl
    /\ it' = 1
    /\ c' = 0
    /\ i' = 0
    /\ hues' = <<>>
    /\ out_of_gamut' = FALSE
    /\ solution' = 0
    /\ neutrals' = <<>>
    /\ shown' = <<>>
    /\ calls' = 0
    /\ pc' = "outer"

Init ==
    /\ gamut \in Gamuts
    /\ slices \in 1..MaxSlices
    /\ it = 1
    /\ c = 0
    /\ i = 0
    /\ hues = <<>>
    /\ out_of_gamut = FALSE
    /\ solution = 0
    /\ neutrals = <<>>
    /\ shown = <<>>
    /\ calls = 0
    /\ run = 1
    /\ prev = [slices |-> 0, solution |-> 0]
    /\ hx = <<>>
    /\ rgb = <<>>
    /\ hexOut = <<>>
    /\ frames = <<>>
    /\ invalid = <<>>
    /\ pc = "outer"

\* a faulty variant: out_of_gamut is set once, before the loop, and never again
NextChromaKeepsFlag ==
    /\ pc = "outer"
    /\ it <= Len(ChromaRange)
    /\ c' = ChromaRange[it]
    /\ it' = it + 1
    /\ hues' = <<>>
    /\ i' = 0
    /\ pc' = "inner"
    /\ UNCHANGED <<gamut, slices, out_of_gamut, solution, neutrals, shown, calls,
                   run, prev, hexVars, displayVars>>

\* for c in range(100, 0, -1): the next value; hues = []; out_of_gamut = False
NextChroma ==
    /\ pc = "outer"
    /\ it <= Len(ChromaRange)
    /\ c' = ChromaRange[it]
    /\ it' = it + 1
    /\ hues' = <<>>
    /\ out_of_gamut' = FALSE
    /\ i' = 0
    /\ pc' = "inner"
    /\ UNCHANGED <<gamut, slices, solution, neutrals, shown, calls, run, prev, hexVars, displayVars>>

\* the range is exhausted: the loop ends with no solution printed
ChromaExhausted ==
    /\ pc = "outer"
    /\ it > Len(ChromaRange)
    /\ pc' = "neutrals"
    /\ UNCHANGED <<gamut, slices, it, c, i, hues, out_of_gamut, solution,
                   neutrals, shown, calls, run, prev, hexVars, displayVars>>

\* the hue tested next
Testing == pc = "inner" /\ i < slices

\* ciecam16_is_within_srgb(selected) is true: hues.append(ciecam16_to_hex(selected))
HueInGamut ==
    /\ Testing
    /\ Classify(gamut, Selected(slices, c, i)) = "True"
    /\ hues' = Append(hues, CiecamToHex(Selected(slices, c, i)))
    /\ i' = i + 1
    /\ calls' = calls + 1
    /\ UNCHANGED <<gamut, slices, it, c, out_of_gamut, solution, neutrals,
                   shown, run, prev, pc, hexVars, displayVars>>

\* a faulty variant: the break is missing, the next hue of the same C is tested
HueOutOfGamutNoBreak ==
    /\ pc = "inner" /\ i < slices
    /\ Classify(gamut, Selected(slices, c, i)) = "False"
    /\ out_of_gamut' = TRUE
    /\ i' = i + 1
    /\ calls' = calls + 1
    /\ UNCHANGED <<gamut, slices, it, c, hues, solution, neutrals, shown,
                   run, prev, hexVars, displayVars, pc>>

\* it is false: out_of_gamut = True; break; "if not out_of_gamut" fails, next c
HueOutOfGamut ==
    /\ Testing
    /\ Classify(gamut, Selected(slices, c, i)) = "False"
    /\ out_of_gamut' = TRUE
    /\ calls' = calls + 1
    /\ pc' = "outer"
    /\ UNCHANGED <<gamut, slices, it, c, i, hues, solution, neutrals, shown,
                   run, prev, hexVars, displayVars>>

\* a faulty variant: an exception of the classifier is taken for "out of gamut"
HueRaisesCaught ==
    /\ Testing
    /\ Classify(gamut, Selected(slices, c, i)) = "raise"
    /\ out_of_gamut' = TRUE
    /\ calls' = calls + 1
    /\ pc' = "outer"
    /\ UNCHANGED <<gamut, slices, it, c, i, hues, solution, neutrals, shown,
                   run, prev, hexVars, displayVars>>

\* the conversion chain raises (ciecam16_is_within_srgb runs it first, on the
\* same specification as ciecam16_to_hex): nothing in wheel() or main() catches it
HueRaises ==
    /\ Testing
    /\ Classify(gamut, Selected(slices, c, i)) = "raise"
    /\ calls' = calls + 1
    /\ pc' = "aborted"
    /\ UNCHANGED <<gamut, slices, it, c, i, hues, out_of_gamut, solution,
                   neutrals, shown, run, prev, hexVars, displayVars>>

\* the inner loop is over: if not out_of_gamut: print("Solution found for C =", c);
\* break.  Otherwise the next c is tried.
EndOfHues ==
    /\ pc = "inner"
    /\ i >= slices
    /\ IF ~out_of_gamut
          THEN solution' = c /\ pc' = "neutrals"
          ELSE solution' = solution /\ pc' = "outer"
    /\ UNCHANGED <<gamut, slices, it, c, i, hues, out_of_gamut, neutrals,
                   shown, calls, run, prev, hexVars, displayVars>>

\* neutrals = [...]
MakeNeutrals ==
    /\ pc = "neutrals"
    /\ neutrals' = NeutralRamp
    /\ pc' = "display"
    /\ UNCHANGED <<gamut, slices, it, c, i, hues, out_of_gamut, solution,
                   shown, calls, run, prev, hexVars, displayVars>>

\* display_colors([hues, neutrals])
DisplayWheel ==
    /\ pc = "display"
    /\ shown' = <<hues, neutrals>>
    /\ pc' = "done"
    /\ UNCHANGED <<gamut, slices, it, c, i, hues, out_of_gamut, solution,
                   neutrals, calls, run, prev, hexVars, displayVars>>

\* the same search run again with slices reduced to 1, under the same classifier
RunWithOneSlice ==
    /\ pc = "done"
    /\ run = 1
    /\ run' = 2
    /\ prev' = [slices |-> slices, solution |-> solution]
    /\ Enter(1)
    /\ UNCHANGED <<gamut, hexVars, displayVars>>

Next ==
    \/ NextChroma
    \/ ChromaExhausted
    \/ HueInGamut
    \/ HueOutOfGamut
    \/ HueRaises
    \/ EndOfHues
    \/ MakeNeutrals
    \/ DisplayWheel
    \/ RunWithOneSlice

Spec == Init /\ [][Next]_vars

----------------------------------------------------------------------------
(* Strings and floats *)

\* A string is the sequence of its characters.
HexLower == <<"0", "1", "2", "3", "4", "5", "6", "7",
              "8", "9", "a", "b", "c", "d", "e", "f">>
HexUpper == <<"0", "1", "2", "3", "4", "5", "6", "7",
              "8", "9", "A", "B", "C", "D", "E", "F">>

IsHexDigit(ch) == \E k \in 1..16 : HexLower[k] = ch \/ HexUpper[k] = ch
DigitValue(ch) == (CHOOSE k \in 1..16 : HexLower[k] = ch \/ HexUpper[k] = ch) - 1
LowerChar(ch) == IF IsHexDigit(ch) THEN HexLower[DigitValue(ch) + 1] ELSE ch
Lower(s) == [k \in 1..Len(s) |-> LowerChar(s[k])]
IsHex6(s) == Len(s) = 6 /\ \A k \in 1..6 : IsHexDigit(s[k])

\* A float is a number, held in units of 1/(255 * Scale), an infinity or a NaN.
Num(v) == [kind |-> "num", v |-> v]
NaN == [kind |-> "nan", v |-> 0]
PosInf == [kind |-> "inf", v |-> 1]
NegInf == [kind |-> "inf", v |-> -1]
One == 255 * Scale

\* n / 255: exact when the quotient is a float, off by a rounding error otherwise
Div255(n) ==
    IF n % 255 = 0 THEN {Num(n * Scale)}
    ELSE {Num(n * Scale + e) : e \in {-1, 0, 1}}

\* val * 255 of a number, in units of 1/Scale, with its rounding error
Times255(x) == {x.v + e : e \in {-1, 0, 1}}

\* round(p) of a number p held in units of 1/Scale: to nearest, a tie to even
Round(p) ==
    LET q == p \div Scale
        r == p % Scale
    IN  IF 2 * r < Scale THEN q
        ELSE IF 2 * r > Scale THEN q + 1
        ELSE IF q % 2 = 0 THEN q ELSE q + 1

----------------------------------------------------------------------------
(* hex_to_rgb *)

\* hx[a:b]: a slice that reaches past the end is cut short, without an error
Slice(s, a, b) == SubSeq(s, a + 1, IF b < Len(s) THEN b ELSE Len(s))

IsSpace(ch) == ch = " "
IsSign(ch) == ch = "+" \/ ch = "-"
Signed(ch, n) == IF ch = "-" THEN -n ELSE n

\* int(s, 16) of a string of at most two characters: surrounding whitespace is
\* stripped, a sign may lead, and what is left must be hex digits
ParseInt16(s) ==
    IF Len(s) = 1 /\ IsHexDigit(s[1])
        THEN [ok |-> TRUE, n |-> DigitValue(s[1])]
    ELSE IF Len(s) = 2 /\ IsHexDigit(s[1]) /\ IsHexDigit(s[2])
        THEN [ok |-> TRUE, n |-> 16 * DigitValue(s[1]) + DigitValue(s[2])]
    ELSE IF Len(s) = 2 /\ IsSpace(s[1]) /\ IsHexDigit(s[2])
        THEN [ok |-> TRUE, n |-> DigitValue(s[2])]
    ELSE IF Len(s) = 2 /\ IsHexDigit(s[1]) /\ IsSpace(s[2])
        THEN [ok |-> TRUE, n |-> DigitValue(s[1])]
    ELSE IF Len(s) = 2 /\ IsSign(s[1]) /\ IsHexDigit(s[2])
        THEN [ok |-> TRUE, n |-> Signed(s[1], DigitValue(s[2]))]
    ELSE [ok |-> FALSE, n |-> 0]

\* the three integers of hex_to_rgb(hx), before the division
Channels(s) == << ParseInt16(Slice(s, 0, 2)),
                  ParseInt16(Slice(s, 2, 4)),
                  ParseInt16(Slice(s, 4, 6)) >>

\* hex_to_rgb(hx) raises ValueError: one of the int() calls does
HexToRgbRaises(s) == \E k \in 1..3 : ~Channels(s)[k].ok

\* the triples hex_to_rgb(hx) may return (one per outcome of the float divisions)
HexToRgb(s) ==
    { <<r, g, b>> : r \in Div255(Channels(s)[1].n),
                    g \in Div255(Channels(s)[2].n),
                    b \in Div255(Channels(s)[3].n) }

----------------------------------------------------------------------------
(* rgb_to_hex *)

LeqZero(x) == (x.kind = "num" /\ x.v <= 0) \/ (x.kind = "inf" /\ x.v < 0)
GeqOne(x) == (x.kind = "num" /\ x.v >= One) \/ (x.kind = "inf" /\ x.v > 0)

\* the byte appended to clamped for one channel; int(round(nan)) raises, and
\* then there is none
ClampChannel(x) ==
    IF LeqZero(x) THEN {0}
    ELSE IF GeqOne(x) THEN {255}
    ELSE IF x.kind = "nan" THEN {}
    ELSE {Round(p) : p \in Times255(x)}

\* the digits of n >= 0 in base 16, lower case
RECURSIVE HexDigitsOf(_)
HexDigitsOf(n) ==
    IF n < 16 THEN <<HexLower[n + 1]>>
    ELSE HexDigitsOf(n \div 16) \o <<HexLower[(n % 16) + 1]>>

\* a faulty variant: f'{val:x}', no padding to two digits
Format02xNoPad(n) == HexDigitsOf(n)

\* f'{val:02x}'
Format02x(n) == IF n < 16 THEN <<"0">> \o HexDigitsOf(n) ELSE HexDigitsOf(n)

\* rgb_to_hex(rgb) raises ValueError
RgbToHexRaises(t) == \E k \in 1..3 : ClampChannel(t[k]) = {}

\* the strings rgb_to_hex(rgb) may return (one per outcome of the float products)
RgbToHex(t) ==
    { Format02x(r) \o Format02x(g) \o Format02x(b) :
        r \in ClampChannel(t[1]), g \in ClampChannel(t[2]), b \in ClampChannel(t[3]) }

----------------------------------------------------------------------------
(* The conversions applied to drawn inputs *)

\* the longest string drawn freely
MaxLen == 7

\* strings of any content: a hex digit, a letter that is none, a sign, a blank
FreeStrings == UNION { [1..n -> {"f", "g", "-", " "}] : n \in 0..MaxLen }

HexChars == {HexLower[k] : k \in 1..16} \cup {HexUpper[k] : k \in 1..16}

\* strings of six hex digits: every two-digit spelling of a byte, in either
\* case, in each of the three places, beside the bytes 00 and ff
SixDigitStrings ==
    { [k \in 1..6 |-> IF k = 2 * j - 1 THEN a ELSE IF k = 2 * j THEN b ELSE f] :
        j \in 1..3, a \in HexChars, b \in HexChars, f \in {"0", "f"} }

\* channel values given to rgb_to_hex directly
ChannelValues ==
    { NaN, PosInf, NegInf, Num(-One), Num(-1), Num(0), Num(1),
      Num(26 * Scale + (Scale \div 2)), Num(One - 1), Num(One), Num(One + 1),
      Num(2 * One) }

wheelIdle ==
    /\ gamut = {}
    /\ slices = 0
    /\ it = 0
    /\ c = 0
    /\ out_of_gamut = FALSE
    /\ solution = 0
    /\ neutrals = <<>>
    /\ calls = 0
    /\ run = 0
    /\ prev = [slices |-> 0, solution |-> 0]

HexInit ==
    /\ wheelIdle
    /\ i = 0
    /\ hues = <<>>
    /\ shown = <<>>
    /\ frames = <<>>
    /\ invalid = <<>>
    /\ hexOut = <<>>
    /\ \/ /\ hx \in FreeStrings \cup SixDigitStrings
          /\ rgb = <<>>
          /\ pc = "parse"
       \/ /\ hx = <<>>
          /\ rgb \in ChannelValues \X ChannelValues \X ChannelValues
          /\ pc = "given_rgb"

CallHexToRgbReturns ==
    /\ pc = "parse"
    /\ ~HexToRgbRaises(hx)
    /\ rgb' \in HexToRgb(hx)
    /\ pc' = "parsed"
    /\ UNCHANGED <<wheelVars, i, hues, shown, hx, hexOut, displayVars>>

CallHexToRgbRaises ==
    /\ pc = "parse"
    /\ HexToRgbRaises(hx)
    /\ pc' = "parse_error"
    /\ UNCHANGED <<wheelVars, i, hues, shown, hexVars, displayVars>>

CallRgbToHexReturns ==
    /\ pc \in {"parsed", "given_rgb"}
    /\ ~RgbToHexRaises(rgb)
    /\ hexOut' \in RgbToHex(rgb)
    /\ pc' = "formatted"
    /\ UNCHANGED <<wheelVars, i, hues, shown, hx, rgb, displayVars>>

CallRgbToHexRaises ==
    /\ pc \in {"parsed", "given_rgb"}
    /\ RgbToHexRaises(rgb)
    /\ pc' = "format_error"
    /\ UNCHANGED <<wheelVars, i, hues, shown, hexVars, displayVars>>

HexNext ==
    \/ CallHexToRgbReturns
    \/ CallHexToRgbRaises
    \/ CallRgbToHexReturns
    \/ CallRgbToHexRaises

HexSpec == HexInit /\ [][HexNext]_vars

----------------------------------------------------------------------------
(* display_colors *)

\* Python values that can be iterated: a str yields its characters, each a str
\* of length one; a list yields its elements.
Str(chars) == [type |-> "str", val |-> chars]
List(elems) == [type |-> "list", val |-> elems]
Iter(x) ==
    IF x.type = "str" THEN [k \in 1..Len(x.val) |-> Str(<<x.val[k]>>)]
    ELSE x.val

\* Tk takes "#" followed by 3, 6, 9 or 12 hex digits as a colour; any other
\* string starting with "#" raises TclError
TkAccepts(bg) ==
    /\ Len(bg) \in {4, 7, 10, 13}
    /\ bg[1] = "#"
    /\ \A k \in 2..Len(bg) : IsHexDigit(bg[k])

\* the frames display_colors attempts for one row: bg = "#" + color
RowCells(row, r) ==
    LET colors == Iter(row)
    IN  [k \in 1..Len(colors) |->
            [row |-> r - 1, column |-> k - 1, color |-> colors[k].val,
             bg |-> <<"#">> \o colors[k].val]]

\* ... and for the rows from the r-th on, in the order of the two loops
RECURSIVE CellsFrom(_, _)
CellsFrom(rows, r) ==
    IF r > Len(rows) THEN <<>>
    ELSE RowCells(rows[r], r) \o CellsFrom(rows, r + 1)

Accepted(cell) == TkAccepts(cell.bg)
Rejected(cell) == ~TkAccepts(cell.bg)

\* display_colors(color_matrix): the frames put on the grid
FramesOf(matrix) == SelectSeq(CellsFrom(Iter(matrix), 1), Accepted)

\* display_colors(color_matrix): the cells reported by print("Invalid color")
InvalidOf(matrix) == SelectSeq(CellsFrom(Iter(matrix), 1), Rejected)

----------------------------------------------------------------------------
(* interesting_wavelengths() *)

wavelengths == <<417, 448, 450, 483, 514, 545, 568, 599, 630>>

\* xyz_to_rgb(ciecam16_to_xyz(wavelength_to_ciecam16(w))): the library's answer.
\* It is left open: a triple with channels below 0 and above 1 (a spectral
\* colour lies outside sRGB), one within [0,1], or one of NaNs.
SpectralRgb(w) ==
    { <<Num(-(w % 100) * Scale), Num(51 * Scale), Num(One + w)>>,
      <<Num(One), Num((w % 200) * Scale), Num(0)>>,
      <<NaN, NaN, NaN>> }

SpectralInit ==
    /\ wheelIdle
    /\ i = 1
    /\ hues = <<>>
    /\ shown = <<>>
    /\ frames = <<>>
    /\ invalid = <<>>
    /\ hx = <<>>
    /\ rgb = <<>>
    /\ hexOut = <<>>
    /\ pc = "sample"

\* hues.append("#" + ciecam16_to_hex(wavelength_to_ciecam16(wavelength)))
SampleWavelength ==
    /\ pc = "sample"
    /\ i <= Len(wavelengths)
    /\ \E t \in SpectralRgb(wavelengths[i]) :
          /\ ~RgbToHexRaises(t)
          /\ \E h \in RgbToHex(t) : hues' = Append(hues, Str(<<"#">> \o h))
    /\ i' = i + 1
    /\ UNCHANGED <<wheelVars, shown, hexVars, displayVars, pc>>

\* rgb_to_hex raises inside the loop: nothing catches it
SampleRaises ==
    /\ pc = "sample"
    /\ i <= Len(wavelengths)
    /\ \E t \in SpectralRgb(wavelengths[i]) : RgbToHexRaises(t)
    /\ pc' = "sample_error"
    /\ UNCHANGED <<wheelVars, i, hues, shown, hexVars, displayVars>>

\* display_colors(hues)
DisplaySpectral ==
    /\ pc = "sample"
    /\ i > Len(wavelengths)
    /\ shown' = List(hues)
    /\ frames' = FramesOf(List(hues))
    /\ invalid' = InvalidOf(List(hues))
    /\ pc' = "displayed"
    /\ UNCHANGED <<wheelVars, i, hues, hexVars>>

SpectralNext ==
    \/ SampleWavelength
    \/ SampleRaises
    \/ DisplaySpectral

SpectralSpec == SpectralInit /\ [][SpectralNext]_vars

----------------------------------------------------------------------------
(* The claims about the chroma search, checked under Spec *)

\* every hue of a wheel of sl slices at chroma C is within sRGB
AllInGamut(sl, C) ==
    \A j \in 0..(sl - 1) : Classify(gamut, Selected(sl, C, j)) = "True"

\* the chromas of [1,100] at which the whole wheel is within sRGB
Feasible(sl) == {C \in 1..100 : AllInGamut(sl, C)}

Max(S) == CHOOSE x \in S : \A y \in S : y <= x

\* the hex colours of the wheel at chroma C, in hue order
WheelOf(sl, C) == [j \in 1..sl |-> CiecamToHex(Selected(sl, C, j - 1))]

\* the number of hues of the wheel at chroma C that precede the first one that
\* is not within sRGB
LeadingInGamut(sl, C) ==
    CHOOSE n \in 0..sl :
        /\ \A j \in 0..(n - 1) : Classify(gamut, Selected(sl, C, j)) = "True"
        /\ n < sl => Classify(gamut, Selected(sl, C, n)) # "True"

\* C1: when some integer C of [1,100] has all its hues in gamut, the solution
\* reported is the largest such C, and the first row handed to the display is
\* the hex colours of that C's hues, in the order i = 0 .. slices-1.
C1_MaxChroma ==
    (pc = "done" /\ Feasible(slices) # {}) =>
        /\ solution = Max(Feasible(slices))
        /\ shown[1] = WheelOf(slices, solution)

\* a search that went below C = 100, past a C that failed on a later hue
C1_Witness ==
    /\ pc = "done"
    /\ slices > 1
    /\ Feasible(slices) # {}
    /\ solution < 99
    /\ Len(shown[1]) = slices

\* C5, as stated: a candidate whose classification raises is taken for out of
\* gamut, and the search goes on with C-1.
C5_RaiseTakenForOutOfGamut ==
    [][ (Testing /\ Classify(gamut, Selected(slices, c, i)) = "raise")
            => (pc' = "outer" /\ out_of_gamut' /\ c' = c) ]_vars

\* C5, amended: a candidate whose classification raises ends wheel(): the
\* exception propagates, no further candidate is tested, no solution is
\* reported, the neutral ramp is not built and nothing is displayed.
C5_RaiseAborts ==
    /\ [][ (Testing /\ Classify(gamut, Selected(slices, c, i)) = "raise")
              => pc' = "aborted" ]_vars
    /\ [](pc = "aborted" =>
            /\ Classify(gamut, Selected(slices, c, i)) = "raise"
            /\ solution = 0
            /\ neutrals = <<>>
            /\ shown = <<>>
            /\ ~ENABLED Next)

\* the classifier raised in the middle of the search
C5_Witness ==
    /\ pc = "aborted"
    /\ c < 100
    /\ i > 0

\* C7: when the search with some slice count finds a solution, the search with
\* slices = 1 under the same classifier finds one too, with a chroma that is
\* not smaller.
C7_OneSliceNotSmaller ==
    (run = 2 /\ pc = "done" /\ prev.solution # 0) =>
        (solution # 0 /\ solution >= prev.solution)

\* one slice reached a larger chroma than several
C7_Witness ==
    /\ run = 2
    /\ pc = "done"
    /\ prev.slices > 1
    /\ prev.solution # 0
    /\ solution > prev.solution

\* the lightness levels of the swatches of a ramp, each as level * 100 * Scale
LevelsOf(ramp) == [k \in 1..Len(ramp) |-> ramp[k].hex_of.J]

\* C8: the six neutral swatches are generated, in the order emitted, at the
\* levels yin_level(2) < yin_level(1) < yin_level(0) < 1-yin_level(0) <
\* 1-yin_level(1) < 1-yin_level(2), so no two adjacent swatches have the same
\* level; yin_level is strictly decreasing and below 1/2.
C8_RampIncreasing ==
    (pc \in {"display", "done"}) =>
        /\ LevelsOf(neutrals) =
              << 100 * yin_level(2), 100 * yin_level(1), 100 * yin_level(0),
                 100 * (Scale - yin_level(0)), 100 * (Scale - yin_level(1)),
                 100 * (Scale - yin_level(2)) >>
        /\ \A k \in 1..5 : LevelsOf(neutrals)[k] < LevelsOf(neutrals)[k + 1]
        /\ \A n \in 0..(MaxLevel - 1) : yin_level(n + 1) < yin_level(n)
        /\ \A n \in 0..MaxLevel : 0 < yin_level(n) /\ 2 * yin_level(n) < Scale

\* the ramp has been generated
C8_Witness ==
    /\ pc = "done"
    /\ Len(neutrals) = 6
    /\ shown[2] = neutrals

\* a step of the search that calls the classifier
Call == calls' = calls + 1

\* what is left of the search: it decreases with every step that stays in it
Rank ==
    (Len(ChromaRange) + 1 - it) * (slices + 2)
        + (IF pc = "inner" THEN slices + 1 - i ELSE 0)

\* C9: the search terminates; the chromas are tried in the order 100, 99, ...,
\* 1, each at most once; within one C the classifier is called on the hues in
\* index order, and never after a hue of that C was found out of gamut; no C is
\* tested after the first C that is wholly in gamut; at most 100 * slices
\* calls of the classifier are made.
C9_SearchBoundedAndOrdered ==
    /\ [][ (c' # c /\ run' = run) =>
              (c' = IF c = 0 THEN 100 ELSE c - 1) /\ c' \in 1..100 ]_vars
    /\ [][ Call => /\ pc = "inner"
                   /\ ~out_of_gamut
                   /\ Len(hues) = i
                   /\ i < slices
                   /\ solution = 0
                   /\ c' = c
                   /\ (i' = i + 1 \/ pc' # "inner") ]_vars
    /\ [][ (solution # 0 /\ run' = run) => (c' = c /\ calls' = calls) ]_vars
    /\ [][ (pc \in {"outer", "inner"} /\ pc' \in {"outer", "inner"} /\ run' = run)
              => Rank' < Rank ]_vars
    /\ [](Rank >= 0 /\ calls <= 100 * slices)

\* a search that made every call it can make: all the hues but the last pass
\* at every C
C9_Witness ==
    /\ pc = "done"
    /\ slices > 1
    /\ calls = 100 * slices

\* C10: when no integer C of [1,100] has all its hues in gamut, the search ends
\* with no solution reported and without raising; hues is the partial attempt
\* for C = 1, the hex colours of the in-gamut hues that precede the first hue out
\* of gamut, fewer than slices; that row and the six neutrals are displayed.
C10_PartialRowDisplayed ==
    (pc = "done" /\ Feasible(slices) = {}) =>
        /\ solution = 0
        /\ c = 1
        /\ out_of_gamut
        /\ Len(hues) = LeadingInGamut(slices, 1)
        /\ hues = SubSeq(WheelOf(slices, 1), 1, Len(hues))
        /\ Len(hues) < slices
        /\ Len(neutrals) = 6
        /\ shown = <<hues, neutrals>>

\* no chroma is feasible, and the partial row is not empty
C10_Witness ==
    /\ pc = "done"
    /\ Feasible(slices) = {}
    /\ Len(hues) > 0
    /\ shown = <<hues, neutrals>>

----------------------------------------------------------------------------
(* The claims about the conversions, checked under HexSpec *)

\* the k-th byte written in a string of hex digits
ByteAt(s, k) == 16 * DigitValue(s[2 * k - 1]) + DigitValue(s[2 * k])

\* C2: for every string h of six hex digits, rgb_to_hex(hex_to_rgb(h)) is h in
\* the lower-case digits rgb_to_hex writes: every byte b is mapped to b/255 and
\* back to b, and h written in lower case, one string per byte triple, is
\* reproduced exactly.
C2_RoundTrip ==
    (pc = "formatted" /\ IsHex6(hx)) =>
        /\ hexOut = Lower(hx)
        /\ \A k \in 1..3 : ByteAt(hexOut, k) = ByteAt(hx, k)
        /\ (Lower(hx) = hx => hexOut = hx)

\* a byte whose quotient by 255 carries a rounding error came back
C2_Witness ==
    /\ pc = "formatted"
    /\ IsHex6(hx)
    /\ hx = Lower(hx)
    /\ \E k \in 1..3 : rgb[k].v # ByteAt(hx, k) * Scale
    /\ hexOut = hx

\* C3: hex_to_rgb raises for every string that is not exactly six hex digits,
\* and returns a triple only for a string of exactly six hex digits.
C3_FormatError ==
    /\ pc = "parsed" => IsHex6(hx)
    /\ pc = "parse_error" => ~IsHex6(hx)

\* C4: rgb_to_hex never raises; a channel <= 0 gives the byte 0, a channel >= 1
\* the byte 255, a channel in between round(255 * val); the result is six hex
\* digits.
C4_Total ==
    /\ pc # "format_error"
    /\ pc = "formatted" =>
          /\ IsHex6(hexOut)
          /\ \A k \in 1..3 :
                /\ ByteAt(hexOut, k) \in 0..255
                /\ LeqZero(rgb[k]) => ByteAt(hexOut, k) = 0
                /\ GeqOne(rgb[k]) => ByteAt(hexOut, k) = 255
                /\ (~LeqZero(rgb[k]) /\ ~GeqOne(rgb[k])) =>
                      ByteAt(hexOut, k) \in {Round(p) : p \in Times255(rgb[k])}

----------------------------------------------------------------------------
(* The claim about the spectral sampling, checked under SpectralSpec *)

\* C6: the display is handed one row holding one six-digit hex colour for each
\* wavelength, in the order of the wavelengths, and puts up one swatch for each.
C6_OneRowOfSwatches ==
    pc = "displayed" =>
        /\ Len(Iter(shown)) = 1
        /\ Len(Iter(Iter(shown)[1])) = Len(wavelengths)
        /\ \A k \in 1..Len(Iter(Iter(shown)[1])) : IsHex6(Iter(Iter(shown)[1])[k].val)
        /\ Len(frames) = Len(wavelengths)
        /\ invalid = <<>>

=============================================================================
